---- MODULE Spec2Model ----
(***************************************************************************)
(* State-machine model of GitHubActionsMonitor.monitor (src/main.py): the  *)
(* polling loop, the tracking table monitored_runs, the dispatch of start  *)
(* and completion notifications, the eviction of old entries and the two   *)
(* exception handlers of the loop.                                         *)
(*                                                                         *)
(* One behaviour is one call of monitor(); every step of the loop body is  *)
(* one action, so that an exception or a KeyboardInterrupt can strike      *)
(* between any two of them, as it can in the Python program.               *)
(*                                                                         *)
(* The environment (the run-query provider, the notification sink, the     *)
(* operator's Ctrl-C) is nondeterministic.  The runs of Watched are the    *)
(* runs whose fate varies: they may be listed by either query while they   *)
(* are active, complete (between two cycles), have their detail fetch      *)
(* fail, carry a record the start composer cannot read, or meet a failing  *)
(* sink.  The other runs (up to MaxRunId) are well-formed runs that are    *)
(* listed once, in pages of consecutive identifiers, and stay in progress. *)
(* A run the provider reports as completed stays completed and is not      *)
(* listed as queued or in_progress again.                                  *)
(*                                                                         *)
(* Three specifications:                                                   *)
(*   Spec         one call of monitor() on a constructed object;           *)
(*   SpecMain     main() and __init__, from the configuration to the first *)
(*                queries and start notifications of the loop;             *)
(*   SpecCompose  format_duration, create_start_message and                *)
(*                create_completion_message, each applied to one argument  *)
(*                list drawn from a bounded set.                           *)
(***************************************************************************)
EXTENDS Integers, Sequences, FiniteSets, TLC

\* ------------------------------------------------------------------ bounds
\* Runs that exist at the provider during one call of monitor().
MaxRunId == 52

\* Timestamps, in seconds after the earliest one: a run starts within
\* MaxStartSeconds and ends (or the clock reads) within MaxSeconds.
MaxStartSeconds == 3
MaxSeconds == 68
\* The longest commit message, in characters.
MaxCommitLen == 82

\* ------------------------------------------------------- program constants
\* params = {"per_page": 10}
PerPage == 10
\* if len(self.monitored_runs) > 50
EvictThreshold == 50
\* list(self.monitored_runs.keys())[:-30]
KeepRecent == 30
\* if len(commit_msg) > 80: commit_msg = commit_msg[:80] + "..."
CommitLimit == 80

Ids == 1..MaxRunId
\* The runs whose listing, completion and failures are chosen freely: the
\* oldest run of the repository.
Watched == {1}
\* The other runs.
NumFillers == MaxRunId - Cardinality(Watched)

\* The conclusions a watched run completes with here: one that status_map
\* knows and one that it does not.
RunConclusions == {"success", "neutral"}

VARIABLES
    pc,               \* position of monitor() in its loop
    monitored_runs,   \* self.monitored_runs: insertion-ordered dict, as a sequence
    send_notification,\* TRUE iff a send_notification callback was passed
    queued,           \* result of get_workflow_runs(status='queued')
    active_runs,      \* queued + in_progress results of this cycle
    i,                \* index of the for loop over active_runs
    j,                \* index of the for loop over list(monitored_runs.keys())
    run_details,      \* result of get_run_details for the entry at j
    message,          \* the message composed and not yet sent
    prov,             \* provider: status and conclusion of the watched runs
    created,          \* provider: how many of the other runs were listed so far
    starts,           \* per identifier: start notifications the sink accepted
    ends,             \* per identifier: completion notifications the sink accepted
    endLabel,         \* per identifier: label of the last completion notification
    cycleStarts,      \* start notifications accepted in this cycle, in order
    cycleEnds,        \* completion notifications accepted in this cycle, in order
    cycleNew,         \* first-seen list of the runs of active_runs not tracked at cycle start
    interrupted,      \* a KeyboardInterrupt was raised during this cycle
    lastError,        \* what raised the exception that ended this cycle ("none": nothing)
    absentSeen,       \* runs awaiting completion whose detail fetch has returned None
    cycleCompleted,   \* runs whose detail fetch returned 'completed' in this cycle
    sentStart,        \* tracked runs whose start the sink accepted since their insertion
    sentEnd,          \* tracked runs whose completion the sink accepted since their insertion
    cycleFailed,      \* the provider calls that failed in this cycle, in order
    caller,           \* who builds the monitor: main() or a direct caller of the class
    config,           \* REPO_OWNER, REPO_NAME, GITHUB_TOKEN
    base_url,         \* self.base_url ("none": no object was constructed)
    call,             \* the function applied and its arguments, when one is applied alone
    result            \* what that function returned

vars == <<pc, monitored_runs, send_notification, queued, active_runs, i, j,
          run_details, message, prov, created, starts, ends, endLabel,
          cycleStarts, cycleEnds, cycleNew, interrupted, lastError,
          absentSeen, cycleCompleted, sentStart, sentEnd, cycleFailed,
          caller, config, base_url, call, result>>

\* What the polling loop never touches.
auxVars == <<caller, config, base_url, call, result>>

\* ----------------------------------------------------------------- helpers
Min(a, b) == IF a < b THEN a ELSE b

NoMessage == [kind |-> "none"]
NoDetails == [status |-> "none"]

\* The notification tallies: functions whose domain is the set of runs
\* notified so far.
NoneYet == [id \in {} |-> 0]

CountOf(f, id) == IF id \in DOMAIN f THEN f[id] ELSE 0

Tally(f, id) ==
    [x \in DOMAIN f \cup {id} |-> IF x = id THEN CountOf(f, id) + 1 ELSE f[x]]

Record(f, id, v) ==
    [x \in DOMAIN f \cup {id} |-> IF x = id THEN v ELSE f[x]]

\* run_id in self.monitored_runs
Tracked(t, id) == \E k \in 1..Len(t) : t[k].id = id

\* list(self.monitored_runs.keys())
Keys(t) == [k \in 1..Len(t) |-> t[k].id]

KeySet(t) == {t[k].id : k \in 1..Len(t)}

\* self.monitored_runs[run_id], for a tracked run_id
Entry(t, id) == t[CHOOSE k \in 1..Len(t) : t[k].id = id]

\* A plausible slip: the entry is born with notified_start set.
NewEntry_Started(id) == [id |-> id, notified_start |-> TRUE, notified_end |-> FALSE]

\* self.monitored_runs[run_id] = {'notified_start': False, 'notified_end': False}
NewEntry(id) == [id |-> id, notified_start |-> FALSE, notified_end |-> FALSE]

\* self.monitored_runs[run_id][flag] = True
SetFlag(t, id, flag) ==
    [k \in 1..Len(t) |-> IF t[k].id = id THEN [t[k] EXCEPT ![flag] = TRUE] ELSE t[k]]

\* A set of identifiers as the ascending list the provider returns.
RECURSIVE AscSeq(_)
AscSeq(S) ==
    IF S = {} THEN <<>>
    ELSE LET m == CHOOSE x \in S : \A y \in S : x <= y
         IN <<m>> \o AscSeq(S \ {m})

\* The run records of one page: identifiers ids, returned by the query src.
Records(ids, src) == [k \in 1..Len(ids) |-> [id |-> ids[k], src |-> src]]

\* The next n runs that were never listed.
FreshIds(n) == [k \in 1..n |-> Cardinality(Watched) + created + k]

\* One page returned by get_workflow_runs: the watched runs S and n new runs.
Page(S, n, src) == Records(AscSeq(S) \o FreshIds(n), src)

\* The never-listed runs one page carries: as many as fit (per_page) and exist.
FullBatch == Min(PerPage, NumFillers - created)

ListedWatched == {w \in Watched : prov[w].status = "active"}

\* What one successful call of get_workflow_runs may return, as <<S, n>>: some
\* of the watched runs that are active (none: an empty page), or a page of
\* never-listed runs.
PageChoices ==
    {<<S, 0>> : S \in SUBSET ListedWatched} \cup {<<{}, FullBatch>>}

\* The identifiers of a list of run records, duplicates removed, first seen first.
RECURSIVE FirstSeen(_, _)
FirstSeen(runs, seen) ==
    IF runs = <<>> THEN <<>>
    ELSE IF Head(runs).id \in seen THEN FirstSeen(Tail(runs), seen)
    ELSE <<Head(runs).id>> \o FirstSeen(Tail(runs), seen \cup {Head(runs).id})

\* A plausible slip: the 'skipped' row is missing from status_map.
StatusText_NoSkipped(conclusion) ==
    CASE conclusion = "success"   -> "EXITOSO"
      [] conclusion = "failure"   -> "FALLIDO"
      [] conclusion = "cancelled" -> "CANCELADO"
      [] OTHER                    -> "COMPLETADO"

\* status_map.get(conclusion, ('⚠️', 'COMPLETADO'))[1]
StatusText(conclusion) ==
    CASE conclusion = "success"   -> "EXITOSO"
      [] conclusion = "failure"   -> "FALLIDO"
      [] conclusion = "cancelled" -> "CANCELADO"
      [] conclusion = "skipped"   -> "OMITIDO"
      [] OTHER                    -> "COMPLETADO"

\* create_start_message(run): the text is built from the record it is given.
StartMessage(run) == [kind |-> "start", id |-> run.id, src |-> run.src]

\* create_completion_message(run_details); duration is format_duration's result.
CompletionMessage(id, details, duration) ==
    [kind |-> "end", id |-> id, label |-> StatusText(details.conclusion),
     duration |-> duration]

\* What REPO_OWNER, REPO_NAME and GITHUB_TOKEN may hold: a text, the empty
\* text, None.
FieldValues == {"text", "", "None"}

Configs == [owner : FieldValues, name : FieldValues, token : FieldValues]

\* bool(v) for such a value
Truthy(v) == v \notin {"", "None"}

\* self.base_url = f"https://api.github.com/repos/{repo_owner}/{repo_name}"
BaseUrl(c) == <<"https://api.github.com/repos", c.owner, c.name>>

\* No GitHubActionsMonitor object exists.
NoUrl == <<>>

NoCall == [fn |-> "none"]
NoResult == [outcome |-> "none"]

\* The function returned v / raised the exception e.
Returned(v) == [outcome |-> "returned", value |-> v]
Raised(e) == [outcome |-> "raised", value |-> e]

\* The statements of the try block (lines 125-173).
TryBody == {"query_queued", "query_in_progress", "start_loop", "compose_start",
            "send_start", "mark_start", "scan", "compose_end", "send_end",
            "mark_end", "evict", "sleep"}

\* The loop has not left the while True.
Running == TryBody \cup {"error_sleep"}

\* -------------------------------------------------------------------- Init
\* The state of the loop and of the provider when monitor() is entered.
MonitorIdle ==
    /\ monitored_runs = <<>>
    /\ queued = <<>>
    /\ active_runs = <<>>
    /\ i = 1
    /\ j = 1
    /\ run_details = NoDetails
    /\ message = NoMessage
    /\ prov = [w \in Watched |-> [status |-> "active", conclusion |-> "null"]]
    /\ created = 0
    /\ starts = NoneYet
    /\ ends = NoneYet
    /\ endLabel = NoneYet
    /\ cycleStarts = <<>>
    /\ cycleEnds = <<>>
    /\ cycleNew = <<>>
    /\ interrupted = FALSE
    /\ lastError = "none"
    /\ absentSeen = {}
    /\ cycleCompleted = {}
    /\ sentStart = {}
    /\ sentEnd = {}
    /\ cycleFailed = <<>>

\* monitor() is entered on an object built from a full configuration.
Init ==
    /\ pc = "query_queued"
    /\ send_notification \in BOOLEAN
    /\ MonitorIdle
    /\ caller = "direct"
    /\ config = [owner |-> "text", name |-> "text", token |-> "text"]
    /\ base_url = BaseUrl(config)
    /\ call = NoCall
    /\ result = NoResult

provVars == <<prov, created>>
histVars == <<starts, ends, endLabel, cycleStarts, cycleEnds, cycleNew,
              interrupted, lastError, absentSeen, cycleCompleted>>

\* ------------------------------------------------------- exception handlers
\* A plausible slip: the handler leaves the loop instead of sleeping.
HandleException_Breaks(err) ==
    /\ pc' = "stopped"
    /\ lastError' = err

\* except Exception as e: print(...); time.sleep(poll_interval)
HandleException(err) ==
    /\ pc' = "error_sleep"
    /\ lastError' = err

\* except KeyboardInterrupt: print(...); break.  monitor() returns and its
\* locals are gone.
HandleInterrupt ==
    /\ pc' = "stopped"
    /\ interrupted' = TRUE
    /\ queued' = <<>>
    /\ active_runs' = <<>>
    /\ i' = 1
    /\ j' = 1
    /\ run_details' = NoDetails
    /\ message' = NoMessage

\* ------------------------------------------------------------ the queries
\* self.get_workflow_runs(branch=branch, status='queued')
GetQueued ==
    /\ pc = "query_queued"
    /\ \E c \in PageChoices :
         /\ queued' = Page(c[1], c[2], "queued")
         /\ created' = created + c[2]
    /\ pc' = "query_in_progress"
    /\ UNCHANGED <<auxVars, sentStart, sentEnd, cycleFailed,
                   monitored_runs, send_notification, active_runs, i, j,
                   run_details, message, prov, histVars>>

\* A plausible slip: get_workflow_runs without its try/except.
GetQueuedFails_Raises ==
    /\ pc = "query_queued"
    /\ queued' = <<>>
    /\ cycleFailed' = Append(cycleFailed, "queued")
    /\ HandleException("queued")
    /\ UNCHANGED <<auxVars, sentStart, sentEnd, monitored_runs, send_notification,
                   active_runs, i, j, run_details, message, provVars, starts,
                   ends, endLabel, cycleStarts, cycleEnds, cycleNew,
                   interrupted, absentSeen, cycleCompleted>>

\* get_workflow_runs(status='queued') catches a RequestException and returns []
GetQueuedFails ==
    /\ pc = "query_queued"
    /\ queued' = <<>>
    /\ cycleFailed' = Append(cycleFailed, "queued")
    /\ pc' = "query_in_progress"
    /\ UNCHANGED <<auxVars, sentStart, sentEnd, monitored_runs, send_notification,
                   active_runs, i, j, run_details, message, provVars, histVars>>

\* A plausible slip: the in_progress results first.
ActiveRuns_InProgressFirst(q, p) == p \o q

\* active_runs = (queued results + in_progress results)
ActiveRuns(q, p) == q \o p

\* ... + self.get_workflow_runs(branch=branch, status='in_progress')
GetInProgress ==
    /\ pc = "query_in_progress"
    /\ \E c \in PageChoices :
         /\ active_runs' = ActiveRuns(queued, Page(c[1], c[2], "in_progress"))
         /\ created' = created + c[2]
    /\ cycleNew' = FirstSeen(active_runs', KeySet(monitored_runs))
    /\ i' = 1
    /\ pc' = "start_loop"
    /\ UNCHANGED <<auxVars, sentStart, sentEnd, cycleFailed,
                   monitored_runs, send_notification, queued, j, run_details,
                   message, prov, starts, ends, endLabel, cycleStarts, cycleEnds,
                   interrupted, lastError, absentSeen, cycleCompleted>>

\* get_workflow_runs(status='in_progress') catches a RequestException and
\* returns []
GetInProgressFails ==
    /\ pc = "query_in_progress"
    /\ active_runs' = ActiveRuns(queued, <<>>)
    /\ cycleFailed' = Append(cycleFailed, "in_progress")
    /\ cycleNew' = FirstSeen(active_runs', KeySet(monitored_runs))
    /\ i' = 1
    /\ pc' = "start_loop"
    /\ UNCHANGED <<auxVars, sentStart, sentEnd, monitored_runs, send_notification,
                   queued, j, run_details, message, provVars, starts, ends,
                   endLabel, cycleStarts, cycleEnds, interrupted, lastError,
                   absentSeen, cycleCompleted>>

\* ------------------------------------------- the loop over the active runs
RunAtI == active_runs[i]

\* for run in active_runs: (exhausted)
StartLoopDone ==
    /\ pc = "start_loop"
    /\ i > Len(active_runs)
    /\ j' = 1
    /\ pc' = "scan"
    /\ UNCHANGED <<auxVars, sentStart, sentEnd, cycleFailed,
                   monitored_runs, send_notification, queued, active_runs, i,
                   run_details, message, provVars, histVars>>

\* if run_id not in self.monitored_runs: (false)
SkipTracked ==
    /\ pc = "start_loop"
    /\ i <= Len(active_runs)
    /\ Tracked(monitored_runs, RunAtI.id)
    /\ i' = i + 1
    /\ UNCHANGED <<auxVars, sentStart, sentEnd, cycleFailed,
                   pc, monitored_runs, send_notification, queued, active_runs, j,
                   run_details, message, provVars, histVars>>

\* self.monitored_runs[run_id] = {...}; if send_notification:
ObserveNew ==
    /\ pc = "start_loop"
    /\ i <= Len(active_runs)
    /\ ~Tracked(monitored_runs, RunAtI.id)
    /\ monitored_runs' = Append(monitored_runs, NewEntry(RunAtI.id))
    /\ sentStart' = sentStart \ {RunAtI.id}
    /\ sentEnd' = sentEnd \ {RunAtI.id}
    /\ IF send_notification
         THEN pc' = "compose_start" /\ i' = i
         ELSE pc' = "start_loop" /\ i' = i + 1
    /\ UNCHANGED <<auxVars, cycleFailed,
                   send_notification, queued, active_runs, j, run_details,
                   message, provVars, histVars>>

\* message = self.create_start_message(run)
ComposeStart ==
    /\ pc = "compose_start"
    /\ message' = StartMessage(RunAtI)
    /\ pc' = "send_start"
    /\ UNCHANGED <<auxVars, sentStart, sentEnd, cycleFailed,
                   monitored_runs, send_notification, queued, active_runs, i, j,
                   run_details, provVars, histVars>>

\* create_start_message raises: run_data.get('actor', {}) or
\* run_data.get('head_commit', {}) is None, and None has no .get
ComposeStartFails ==
    /\ pc = "compose_start"
    /\ RunAtI.id \in Watched
    /\ HandleException("compose_start")
    /\ UNCHANGED <<auxVars, sentStart, sentEnd, cycleFailed,
                   monitored_runs, send_notification, queued, active_runs, i, j,
                   run_details, message, provVars, starts, ends, endLabel,
                   cycleStarts, cycleEnds, cycleNew, interrupted,
                   absentSeen, cycleCompleted>>

\* send_notification(message) returns
SendStart ==
    /\ pc = "send_start"
    /\ starts' = Tally(starts, message.id)
    /\ cycleStarts' = Append(cycleStarts, [id |-> message.id, src |-> message.src])
    /\ sentStart' = sentStart \cup {message.id}
    /\ pc' = "mark_start"
    /\ UNCHANGED <<auxVars, sentEnd, cycleFailed,
                   monitored_runs, send_notification, queued, active_runs, i, j,
                   run_details, message, provVars, ends, endLabel, cycleEnds,
                   cycleNew, interrupted, lastError, absentSeen,
                   cycleCompleted>>

\* send_notification(message) raises
SendStartFails ==
    /\ pc = "send_start"
    /\ RunAtI.id \in Watched
    /\ HandleException("send_start")
    /\ UNCHANGED <<auxVars, sentStart, sentEnd, cycleFailed,
                   monitored_runs, send_notification, queued, active_runs, i, j,
                   run_details, message, provVars, starts, ends, endLabel,
                   cycleStarts, cycleEnds, cycleNew, interrupted,
                   absentSeen, cycleCompleted>>

\* self.monitored_runs[run_id]['notified_start'] = True
MarkStart ==
    /\ pc = "mark_start"
    /\ monitored_runs' = SetFlag(monitored_runs, RunAtI.id, "notified_start")
    /\ message' = NoMessage
    /\ i' = i + 1
    /\ pc' = "start_loop"
    /\ UNCHANGED <<auxVars, sentStart, sentEnd, cycleFailed,
                   send_notification, queued, active_runs, j, run_details,
                   provVars, histVars>>

\* ------------------------------------------ the loop over the tracked runs
\* The keys do not change during this loop, so list(self.monitored_runs.keys())
\* is Keys(monitored_runs) throughout and j indexes the table itself.
IdAtJ == monitored_runs[j].id

\* A plausible slip: the notified_end test left out.
AwaitsCompletion_Always(t, k) == TRUE

\* not self.monitored_runs[run_id]['notified_end'] (else: continue)
AwaitsCompletion(t, k) == ~t[k].notified_end

\* The cycle-local variables the scan leaves alone.
scanFrame == <<send_notification, queued, active_runs, i, starts, cycleStarts,
               cycleNew, interrupted, lastError>>

\* for run_id in list(self.monitored_runs.keys()): (exhausted)
ScanDone ==
    /\ pc = "scan"
    /\ j > Len(monitored_runs)
    /\ pc' = "evict"
    /\ UNCHANGED <<auxVars, sentStart, sentEnd, cycleFailed,
                   monitored_runs, j, run_details, message, provVars, ends,
                   endLabel, cycleEnds, absentSeen, cycleCompleted, scanFrame>>

\* if self.monitored_runs[run_id]['notified_end']: continue
ScanSkipNotified ==
    /\ pc = "scan"
    /\ j <= Len(monitored_runs)
    /\ ~AwaitsCompletion(monitored_runs, j)
    /\ j' = j + 1
    /\ UNCHANGED <<auxVars, sentStart, sentEnd, cycleFailed,
                   pc, monitored_runs, run_details, message, provVars, ends,
                   endLabel, cycleEnds, absentSeen, cycleCompleted, scanFrame>>

\* A plausible slip: run_details['status'] is read without the
\* 'run_details and' guard, and None['status'] raises a TypeError.
FetchAbsent_Subscripts ==
    /\ pc = "scan"
    /\ j <= Len(monitored_runs)
    /\ AwaitsCompletion(monitored_runs, j)
    /\ IdAtJ \in Watched
    /\ run_details' = NoDetails
    /\ cycleFailed' = Append(cycleFailed, "details")
    /\ HandleException("details")
    /\ UNCHANGED <<auxVars, sentStart, sentEnd,
                   monitored_runs, j, message, provVars, ends, endLabel,
                   cycleEnds, absentSeen, cycleCompleted, send_notification,
                   queued, active_runs, i, starts, cycleStarts, cycleNew,
                   interrupted>>

\* get_run_details returns None (a RequestException was caught): the test
\* 'run_details and ...' is false
FetchAbsent ==
    /\ pc = "scan"
    /\ j <= Len(monitored_runs)
    /\ AwaitsCompletion(monitored_runs, j)
    /\ IdAtJ \in Watched
    /\ run_details' = NoDetails
    /\ absentSeen' = absentSeen \cup {IdAtJ}
    /\ cycleFailed' = Append(cycleFailed, "details")
    /\ j' = j + 1
    /\ UNCHANGED <<auxVars, sentStart, sentEnd,
                   pc, monitored_runs, message, provVars, ends, endLabel,
                   cycleEnds, cycleCompleted, scanFrame>>

\* get_run_details returns a run whose status is not 'completed'
FetchNotCompleted ==
    /\ pc = "scan"
    /\ j <= Len(monitored_runs)
    /\ AwaitsCompletion(monitored_runs, j)
    /\ IdAtJ \in Watched => prov[IdAtJ].status = "active"
    /\ run_details' = [status |-> "in_progress", conclusion |-> "null"]
    /\ j' = j + 1
    /\ UNCHANGED <<auxVars, sentStart, sentEnd, cycleFailed,
                   pc, monitored_runs, message, provVars, ends, endLabel,
                   cycleEnds, absentSeen, cycleCompleted, scanFrame>>

\* get_run_details returns a run with status 'completed'; if send_notification:
FetchCompleted ==
    /\ pc = "scan"
    /\ j <= Len(monitored_runs)
    /\ AwaitsCompletion(monitored_runs, j)
    /\ IdAtJ \in Watched
    /\ prov[IdAtJ].status = "completed"
    /\ run_details' = [status |-> "completed", conclusion |-> prov[IdAtJ].conclusion]
    /\ cycleCompleted' = cycleCompleted \cup {IdAtJ}
    /\ IF send_notification
         THEN pc' = "compose_end" /\ j' = j
         ELSE pc' = "scan" /\ j' = j + 1
    /\ UNCHANGED <<auxVars, sentStart, sentEnd, cycleFailed,
                   monitored_runs, message, provVars, ends, endLabel, cycleEnds,
                   absentSeen, scanFrame>>

\* message = self.create_completion_message(run_details)
ComposeEnd ==
    /\ pc = "compose_end"
    /\ message' = CompletionMessage(IdAtJ, run_details, "elapsed")
    /\ pc' = "send_end"
    /\ UNCHANGED <<auxVars, sentStart, sentEnd, cycleFailed,
                   monitored_runs, j, run_details, provVars, ends, endLabel,
                   cycleEnds, absentSeen, cycleCompleted, scanFrame>>

\* send_notification(message) returns
SendEnd ==
    /\ pc = "send_end"
    /\ ends' = Tally(ends, message.id)
    /\ endLabel' = Record(endLabel, message.id, message.label)
    /\ cycleEnds' = Append(cycleEnds, message.id)
    /\ sentEnd' = sentEnd \cup {message.id}
    /\ pc' = "mark_end"
    /\ UNCHANGED <<auxVars, sentStart, cycleFailed,
                   monitored_runs, j, run_details, message, provVars, absentSeen,
                   cycleCompleted, scanFrame>>

\* send_notification(message) raises
SendEndFails ==
    /\ pc = "send_end"
    /\ HandleException("send_end")
    /\ UNCHANGED <<auxVars, sentStart, sentEnd, cycleFailed,
                   monitored_runs, send_notification, queued, active_runs, i, j,
                   run_details, message, provVars, starts, ends, endLabel,
                   cycleStarts, cycleEnds, cycleNew, interrupted,
                   absentSeen, cycleCompleted>>

\* A plausible slip: the completion is sent and the flag is not set.
MarkEnd_Forgets ==
    /\ pc = "mark_end"
    /\ message' = NoMessage
    /\ j' = j + 1
    /\ pc' = "scan"
    /\ UNCHANGED <<auxVars, sentStart, sentEnd, cycleFailed,
                   monitored_runs, run_details, provVars, ends, endLabel,
                   cycleEnds, absentSeen, cycleCompleted, scanFrame>>

\* self.monitored_runs[run_id]['notified_end'] = True
MarkEnd ==
    /\ pc = "mark_end"
    /\ monitored_runs' = SetFlag(monitored_runs, IdAtJ, "notified_end")
    /\ absentSeen' = absentSeen \ {IdAtJ}
    /\ message' = NoMessage
    /\ j' = j + 1
    /\ pc' = "scan"
    /\ UNCHANGED <<auxVars, sentStart, sentEnd, cycleFailed,
                   run_details, provVars, ends, endLabel, cycleEnds,
                   cycleCompleted, scanFrame>>

\* ---------------------------------------------------------------- eviction
\* A plausible slip: keep the last 50, as the comment of line 167 says.
OldRuns_KeepThreshold(t) == SubSeq(Keys(t), 1, Len(t) - EvictThreshold)

\* old_runs = list(self.monitored_runs.keys())[:-30]
OldRuns(t) == SubSeq(Keys(t), 1, Len(t) - KeepRecent)

\* A plausible slip: an entry whose completion is still owed is spared.
DeleteAll_SparesPending(t, old) ==
    LET gone == {old[k] : k \in 1..Len(old)}
        Kept(e) == e.id \notin gone \/ (e.notified_start /\ ~e.notified_end)
    IN SelectSeq(t, Kept)

\* for old_run in old_runs: del self.monitored_runs[old_run]
DeleteAll(t, old) ==
    LET gone == {old[k] : k \in 1..Len(old)}
        Kept(e) == e.id \notin gone
    IN SelectSeq(t, Kept)

\* A plausible slip: >= for >.
EvictFires_AtThreshold(t) == Len(t) >= EvictThreshold

\* if len(self.monitored_runs) > 50:
EvictFires(t) == Len(t) > EvictThreshold

\* lines 168-171
EvictOld(t) == IF EvictFires(t) THEN DeleteAll(t, OldRuns(t)) ELSE t

Evict ==
    /\ pc = "evict"
    /\ monitored_runs' = EvictOld(monitored_runs)
    /\ absentSeen' = absentSeen \cap KeySet(monitored_runs')
    /\ sentStart' = sentStart \cap KeySet(monitored_runs')
    /\ sentEnd' = sentEnd \cap KeySet(monitored_runs')
    /\ pc' = "sleep"
    /\ UNCHANGED <<auxVars, cycleFailed,
                   send_notification, queued, active_runs, i, j, run_details,
                   message, provVars, starts, ends, endLabel, cycleStarts,
                   cycleEnds, cycleNew, interrupted, lastError, cycleCompleted>>

\* ------------------------------------------------------------------ sleeps
\* The next iteration of while True starts with fresh locals.
NextCycle ==
    /\ pc' = "query_queued"
    /\ queued' = <<>>
    /\ active_runs' = <<>>
    /\ i' = 1
    /\ j' = 1
    /\ run_details' = NoDetails
    /\ message' = NoMessage
    /\ cycleStarts' = <<>>
    /\ cycleEnds' = <<>>
    /\ cycleNew' = <<>>
    /\ cycleCompleted' = {}
    /\ interrupted' = FALSE
    /\ lastError' = "none"
    /\ cycleFailed' = <<>>
    /\ UNCHANGED <<auxVars, sentStart, sentEnd,
                   monitored_runs, send_notification, provVars, starts, ends,
                   endLabel, absentSeen>>

\* time.sleep(poll_interval) of line 173 returns
Sleep ==
    /\ pc = "sleep"
    /\ NextCycle

\* time.sleep(poll_interval) of line 180 (in the except clause) returns
ErrorSleep ==
    /\ pc = "error_sleep"
    /\ NextCycle

\* ------------------------------------------------------------- interrupts
\* KeyboardInterrupt raised inside the try block: caught at line 175.
Interrupt ==
    /\ pc \in TryBody
    /\ HandleInterrupt
    /\ UNCHANGED <<auxVars, sentStart, sentEnd, cycleFailed,
                   monitored_runs, send_notification, provVars, starts, ends,
                   endLabel, cycleStarts, cycleEnds, cycleNew, lastError,
                   absentSeen, cycleCompleted>>

\* KeyboardInterrupt raised while format_duration runs (called by
\* create_completion_message): its bare 'except:' catches it and returns
\* "Desconocida"; the cycle goes on.
InterruptInFormatDuration ==
    /\ pc = "compose_end"
    /\ interrupted' = TRUE
    /\ message' = CompletionMessage(IdAtJ, run_details, "Desconocida")
    /\ pc' = "send_end"
    /\ UNCHANGED <<auxVars, sentStart, sentEnd, cycleFailed,
                   monitored_runs, send_notification, queued, active_runs, i, j,
                   run_details, provVars, starts, ends, endLabel, cycleStarts,
                   cycleEnds, cycleNew, lastError, absentSeen,
                   cycleCompleted>>

\* KeyboardInterrupt raised during the sleep of line 180: that statement is
\* inside the 'except Exception' clause, outside the try block, so no handler
\* of monitor() catches it and it propagates to the caller.
InterruptInErrorSleep ==
    /\ pc = "error_sleep"
    /\ interrupted' = TRUE
    /\ pc' = "propagated"
    /\ UNCHANGED <<auxVars, sentStart, sentEnd, cycleFailed,
                   monitored_runs, send_notification, queued, active_runs, i, j,
                   run_details, message, provVars, starts, ends, endLabel,
                   cycleStarts, cycleEnds, cycleNew, lastError,
                   absentSeen, cycleCompleted>>

\* ------------------------------------------------------------ environment
\* A watched run completes at the provider while the loop sleeps.
RunCompletes ==
    /\ pc \in {"sleep", "error_sleep"}
    /\ \E w \in Watched, c \in RunConclusions :
         /\ prov[w].status = "active"
         /\ prov' = [prov EXCEPT ![w] = [status |-> "completed", conclusion |-> c]]
    /\ UNCHANGED <<auxVars, sentStart, sentEnd, cycleFailed,
                   pc, monitored_runs, send_notification, queued, active_runs, i,
                   j, run_details, message, created, histVars>>

\* ------------------------------------------------------------------- Spec
Next ==
    \/ GetQueued
    \/ GetQueuedFails
    \/ GetInProgress
    \/ GetInProgressFails
    \/ StartLoopDone
    \/ SkipTracked
    \/ ObserveNew
    \/ ComposeStart
    \/ ComposeStartFails
    \/ SendStart
    \/ SendStartFails
    \/ MarkStart
    \/ ScanDone
    \/ ScanSkipNotified
    \/ FetchAbsent
    \/ FetchNotCompleted
    \/ FetchCompleted
    \/ ComposeEnd
    \/ SendEnd
    \/ SendEndFails
    \/ MarkEnd
    \/ Evict
    \/ Sleep
    \/ ErrorSleep
    \/ Interrupt
    \/ InterruptInFormatDuration
    \/ InterruptInErrorSleep
    \/ RunCompletes

Spec == Init /\ [][Next]_vars

\* ------------------------------------------------- main() and __init__
\* Everything the polling loop works on, but its position and its callback.
loopVars == <<monitored_runs, queued, active_runs, i, j, run_details, message,
              provVars, histVars, sentStart, sentEnd, cycleFailed>>

\* all([REPO_OWNER, REPO_NAME, GITHUB_TOKEN])
ConfigComplete(c) == Truthy(c.owner) /\ Truthy(c.name) /\ Truthy(c.token)

\* The program is started through main(), which passes notify_workflow_status
\* as the callback, or the class is used directly, with any arguments.
InitMain ==
    /\ caller \in {"main", "direct"}
    /\ pc = (IF caller = "main" THEN "main" ELSE "construct")
    /\ config \in Configs
    /\ send_notification \in (IF caller = "main" THEN {TRUE} ELSE BOOLEAN)
    /\ MonitorIdle
    /\ base_url = NoUrl
    /\ call = NoCall
    /\ result = NoResult

\* if not all([...]): print(...); return
MainRejects ==
    /\ pc = "main"
    /\ ~ConfigComplete(config)
    /\ pc' = "rejected"
    /\ UNCHANGED <<send_notification, loopVars, auxVars>>

\* if not all([...]): (false)
MainAccepts ==
    /\ pc = "main"
    /\ ConfigComplete(config)
    /\ pc' = "construct"
    /\ UNCHANGED <<send_notification, loopVars, auxVars>>

\* GitHubActionsMonitor.__init__: the fields are stored as they are given.
Construct ==
    /\ pc = "construct"
    /\ base_url' = BaseUrl(config)
    /\ monitored_runs' = <<>>
    /\ pc' = "constructed"
    /\ UNCHANGED <<send_notification, queued, active_runs, i, j, run_details,
                   message, provVars, histVars, sentStart, sentEnd, cycleFailed,
                   caller, config, call, result>>

\* monitor.monitor(branch, poll_interval, send_notification)
CallMonitor ==
    /\ pc = "constructed"
    /\ pc' = "query_queued"
    /\ UNCHANGED <<send_notification, loopVars, auxVars>>

\* From the start of the program to the end of the first loop over the active
\* runs: the first queries and the first start notifications.
NextMain ==
    \/ MainRejects
    \/ MainAccepts
    \/ Construct
    \/ CallMonitor
    \/ GetQueued
    \/ GetQueuedFails
    \/ GetInProgress
    \/ GetInProgressFails
    \/ StartLoopDone
    \/ SkipTracked
    \/ ObserveNew
    \/ ComposeStart
    \/ ComposeStartFails
    \/ SendStart
    \/ SendStartFails
    \/ MarkStart
    \/ Interrupt

SpecMain == InitMain /\ [][NextMain]_vars

\* --------------------------------------------------------- format_duration
\* A timestamp argument is a text or None; a text is described by its form
\* and, when it is ISO 8601, by the instant it denotes (in seconds):
\*   "Z"       2024-01-01T00:00:05Z
\*   "offset"  2024-01-01T00:00:05+00:00
\*   "naive"   2024-01-01T00:00:05
\*   "garbage" a text fromisoformat rejects
\*   "empty"   the empty text
\*   "none"    None
IsoForms == {"Z", "offset", "naive"}

Stamp(form, secs) == [form |-> form, secs |-> secs]

Stamps(last) ==
    {Stamp(f, t) : f \in IsoForms, t \in 0..last}
        \cup {Stamp(f, 0) : f \in {"garbage", "empty", "none"}}

\* What datetime.now() may read, in half seconds.
Clock == 0..(2 * MaxSeconds + 1)

\* datetime.fromisoformat(text.replace('Z', '+00:00')): the instant in half
\* seconds and whether it carries an offset; None has no replace and the
\* other texts are rejected (an exception either way).
FromIso(text) ==
    CASE text.form \in {"Z", "offset"} ->
             [ok |-> TRUE, aware |-> TRUE, ticks |-> 2 * text.secs]
      [] text.form = "naive" ->
             [ok |-> TRUE, aware |-> FALSE, ticks |-> 2 * text.secs]
      [] OTHER -> [ok |-> FALSE, aware |-> FALSE, ticks |-> 0]

\* int(duration.total_seconds()), for a duration in half seconds: int()
\* rounds towards zero.
IntOfSeconds(ticks) ==
    IF ticks >= 0 THEN ticks \div 2 ELSE -((-ticks) \div 2)

\* minutes = total_seconds // 60; seconds = total_seconds % 60;
\* f"{minutes}m {seconds}s" if minutes > 0 else f"{seconds}s"
DurationText(total_seconds) ==
    LET minutes == total_seconds \div 60
        seconds == total_seconds % 60
    IN IF minutes > 0
         THEN ToString(minutes) \o "m " \o ToString(seconds) \o "s"
         ELSE ToString(seconds) \o "s"

\* format_duration(start_time, end_time) when datetime.now() reads now.  Any
\* exception (None.replace, a rejected text, the difference of a datetime
\* with an offset and one without) is caught by the bare except.
FormatDuration(start_time, end_time, now) ==
    LET start == FromIso(start_time)
        end == IF end_time.form \in {"empty", "none"}
                 THEN [ok |-> TRUE, aware |-> TRUE, ticks |-> now]
                 ELSE FromIso(end_time)
    IN IF ~start.ok \/ ~end.ok \/ start.aware # end.aware
         THEN "Desconocida"
         ELSE DurationText(IntOfSeconds(end.ticks - start.ticks))

\* The calls of format_duration: datetime.now() matters only without an end.
FormatDurationCalls ==
    {[fn |-> "format_duration", start_time |-> s, end_time |-> e, now |-> 0] :
        s \in Stamps(MaxStartSeconds), e \in Stamps(MaxSeconds)}
    \cup
    {[fn |-> "format_duration", start_time |-> s, end_time |-> Stamp(f, 0), now |-> n] :
        s \in Stamps(MaxStartSeconds), f \in {"empty", "none"}, n \in Clock}

\* ---------------------------------------------------- create_start_message
\* A text of n characters (code points): letters, a different one at each
\* of any 26 consecutive positions.
Text(n) == [k \in 1..n |-> 97 + (k % 26)]

\* "..."
Ellipsis == <<46, 46, 46>>

\* A plausible slip: >= for >.
TruncateCommit_AtLimit(commit_msg) ==
    IF Len(commit_msg) >= CommitLimit
      THEN SubSeq(commit_msg, 1, CommitLimit) \o Ellipsis
      ELSE commit_msg

\* if len(commit_msg) > 80: commit_msg = commit_msg[:80] + "..."
TruncateCommit(commit_msg) ==
    IF Len(commit_msg) > CommitLimit
      THEN SubSeq(commit_msg, 1, CommitLimit) \o Ellipsis
      ELSE commit_msg

\* dict.get(key, default) for a field that holds "absent" when the key is
\* missing.
Get(field, default) == IF field = "absent" THEN default ELSE field

\* The run records given to create_start_message.  'actor' is missing, null
\* or a dict with a login; 'head_commit' is missing, null, a dict without
\* 'message', a dict whose 'message' is null, or a dict with a message.
StartRunData ==
    {[name |-> n, head_branch |-> "main", run_number |-> "7", html_url |-> "url",
      actor |-> a, head_commit |-> c] :
        n \in {"absent", "CI"},
        a \in {"absent", "null", "octocat"},
        c \in {[kind |-> k, message |-> <<>>] :
                  k \in {"absent", "null", "no_message", "null_message"}}
              \cup {[kind |-> "message", message |-> Text(n2)] :
                       n2 \in 0..MaxCommitLen}}

\* create_start_message(run_data): the fields of the text it returns, or the
\* exception it raises (None has no get, None has no len).
CreateStartMessage(run_data) ==
    IF run_data.actor = "null" \/ run_data.head_commit.kind = "null"
      THEN Raised("AttributeError")
    ELSE IF run_data.head_commit.kind = "null_message"
      THEN Raised("TypeError")
    ELSE Returned([title |-> "GitHub Action Iniciado",
                   repo |-> <<config.owner, config.name>>,
                   workflow |-> Get(run_data.name, "Workflow"),
                   run_number |-> Get(run_data.run_number, "N/A"),
                   branch |-> Get(run_data.head_branch, "rama desconocida"),
                   author |-> Get(run_data.actor, "Usuario"),
                   commit |-> TruncateCommit(run_data.head_commit.message),
                   url |-> Get(run_data.html_url, "#")])

StartMessageCalls == {[fn |-> "create_start_message", run_data |-> r] : r \in StartRunData}

\* ----------------------------------------------- create_completion_message
\* status_map.get(conclusion, ('⚠️', 'COMPLETADO'))[0], by the name of the symbol
StatusEmoji(conclusion) ==
    CASE conclusion = "success"   -> "check mark button"
      [] conclusion = "failure"   -> "cross mark"
      [] conclusion = "cancelled" -> "stop button"
      [] conclusion = "skipped"   -> "next track button"
      [] OTHER                    -> "warning"

\* The values of 'conclusion': missing, null, the four of status_map, others.
Conclusions == {"absent", "null", "success", "failure", "cancelled", "skipped",
                "neutral", "timed_out", "action_required", "SUCCESS"}

\* The run records given to create_completion_message; a missing timestamp
\* is read as None by run_data.get.
CompletionRunData ==
    {[name |-> n, head_branch |-> "main", run_number |-> "7", html_url |-> "url",
      conclusion |-> c, created_at |-> s, updated_at |-> e] :
        n \in {"absent", "CI"},
        c \in Conclusions,
        s \in {Stamp("Z", 0), Stamp("none", 0)},
        e \in {Stamp("Z", 0), Stamp("Z", MaxSeconds), Stamp("none", 0)}}

\* create_completion_message(run_data) when datetime.now() reads now
CreateCompletionMessage(run_data, now) ==
    LET conclusion == Get(run_data.conclusion, "unknown")
    IN Returned([emoji |-> StatusEmoji(conclusion),
                 status_text |-> StatusText(conclusion),
                 repo |-> <<config.owner, config.name>>,
                 workflow |-> Get(run_data.name, "Workflow"),
                 run_number |-> Get(run_data.run_number, "N/A"),
                 branch |-> Get(run_data.head_branch, "rama desconocida"),
                 duration |-> FormatDuration(run_data.created_at,
                                             run_data.updated_at, now),
                 url |-> Get(run_data.html_url, "#")])

CompletionMessageCalls ==
    {[fn |-> "create_completion_message", run_data |-> r, now |-> n] :
        r \in CompletionRunData, n \in {0, 2 * MaxSeconds + 1}}

\* ------------------------------------------- the functions applied alone
Calls == FormatDurationCalls \cup StartMessageCalls \cup CompletionMessageCalls

\* One function of the class is applied to one argument list.
InitCompose ==
    /\ pc = "call"
    /\ call \in Calls
    /\ result = NoResult
    /\ send_notification = FALSE
    /\ MonitorIdle
    /\ caller = "direct"
    /\ config = [owner |-> "text", name |-> "text", token |-> "text"]
    /\ base_url = BaseUrl(config)

ApplyFormatDuration ==
    /\ pc = "call"
    /\ call.fn = "format_duration"
    /\ result' = Returned(FormatDuration(call.start_time, call.end_time, call.now))
    /\ pc' = "returned"
    /\ UNCHANGED <<send_notification, loopVars, caller, config, base_url, call>>

ApplyCreateStartMessage ==
    /\ pc = "call"
    /\ call.fn = "create_start_message"
    /\ result' = CreateStartMessage(call.run_data)
    /\ pc' = "returned"
    /\ UNCHANGED <<send_notification, loopVars, caller, config, base_url, call>>

ApplyCreateCompletionMessage ==
    /\ pc = "call"
    /\ call.fn = "create_completion_message"
    /\ result' = CreateCompletionMessage(call.run_data, call.now)
    /\ pc' = "returned"
    /\ UNCHANGED <<send_notification, loopVars, caller, config, base_url, call>>

NextCompose ==
    \/ ApplyFormatDuration
    \/ ApplyCreateStartMessage
    \/ ApplyCreateCompletionMessage

SpecCompose == InitCompose /\ [][NextCompose]_vars

\* ======================================================== the claims
\* How many of the notifications ns are for the run id.
CountFor(ns, id) == Cardinality({k \in 1..Len(ns) : ns[k].id = id})

\* How many times id occurs in the list of identifiers xs.
Occurrences(xs, id) == Cardinality({k \in 1..Len(xs) : xs[k] = id})

\* The statements after the loop over the active runs, in a cycle that
\* reached them.
AfterStartLoop == {"scan", "compose_end", "send_end", "mark_end", "evict", "sleep"}

\* C1: across any sequence of cycles (eviction and caught errors included),
\* at most one start notification is dispatched for any run identifier.
C1_AtMostOneStart == \A id \in Ids : CountOf(starts, id) <= 1

\* C2: at most one completion notification is dispatched for any run
\* identifier, and an entry whose notified_end is set produces no notification
\* of any kind as long as it stays in the table.
C2_NotifiedEndIsInert ==
    \A k \in 1..Len(monitored_runs) :
        LET id == monitored_runs[k].id
        IN  (monitored_runs[k].notified_end /\ Tracked(monitored_runs', id))
            => /\ CountOf(starts', id) = CountOf(starts, id)
               /\ CountOf(ends', id) = CountOf(ends, id)
               /\ Entry(monitored_runs', id).notified_end

C2_AtMostOneCompletion ==
    /\ [](\A id \in DOMAIN ends : ends[id] <= 1)
    /\ [][C2_NotifiedEndIsInert]_vars

\* A later cycle whose scan has passed the entry of a run that is still
\* reported completed and was notified in an earlier cycle.
C2_Witness ==
    /\ pc = "scan"
    /\ j > 1
    /\ monitored_runs[1].notified_end
    /\ prov[monitored_runs[1].id].status = "completed"
    /\ CountOf(ends, monitored_runs[1].id) = 1
    /\ cycleEnds = <<>>

\* C3: wherever the loop sleeps (after a normal cycle or after a caught
\* error), the table holds at most 50 entries.
C3_BoundedAtSleep ==
    pc \in {"sleep", "error_sleep"} => Len(monitored_runs) <= 50

\* C4: the eviction step leaves exactly the 30 most recently inserted
\* entries, in order and with their flags, when the table holds more than
\* 50, and leaves the table unchanged otherwise.
C4_EvictionStep ==
    (pc = "evict" /\ pc' = "sleep")
    => IF Len(monitored_runs) > 50
         THEN monitored_runs' =
                SubSeq(monitored_runs, Len(monitored_runs) - 29, Len(monitored_runs))
         ELSE monitored_runs' = monitored_runs

C5_SinkFailureDoesNotBlock ==
    lastError \in {"send_start", "send_end"} => pc \notin {"error_sleep", "propagated"}

\* C6: only an interrupt stops the loop: an exception raised during a cycle
\* leaves the loop running in the handler's sleep, from which the next cycle
\* begins.
C6_ExceptionStep ==
    /\ (lastError' # lastError /\ lastError' # "none") => pc' = "error_sleep"
    /\ (pc \in Running /\ pc' \notin Running) => interrupted'
    /\ (pc = "error_sleep" /\ pc' # pc /\ ~interrupted') => pc' = "query_queued"

C6_OnlyInterruptStops ==
    /\ [](pc \notin Running => interrupted)
    /\ [][C6_ExceptionStep]_vars

\* A cycle ended in a caught exception and the loop is asleep, still running.
C6_Witness ==
    /\ pc = "error_sleep"
    /\ lastError = "send_end"
    /\ ~interrupted

\* C7: an interrupt arriving anywhere while the loop runs makes monitor()
\* return normally, in state STOPPED, and nothing happens afterwards.
C7_InterruptStops == interrupted => pc = "stopped"

\* C8: with a working sink and provider, a run first listed in a cycle gets
\* exactly one start notification in that cycle; in the cycle in which its
\* detail fetch reports completed it gets exactly one completion notification
\* with the label of its conclusion; afterwards it gets no notification.
C8_LabelOf(conclusion) ==
    IF conclusion = "success" THEN "EXITOSO"
    ELSE IF conclusion = "failure" THEN "FALLIDO"
    ELSE "COMPLETADO"

C8_OneStartWhenFirstListed ==
    (send_notification /\ pc \in AfterStartLoop)
    => \A k \in 1..Len(cycleNew) : CountFor(cycleStarts, cycleNew[k]) = 1

C8_OneCompletionWhenCompleted ==
    (send_notification /\ pc \in {"evict", "sleep"})
    => \A id \in cycleCompleted :
          /\ Occurrences(cycleEnds, id) = 1
          /\ CountOf(ends, id) = 1
          /\ endLabel[id] = C8_LabelOf(prov[id].conclusion)

C8_SilentAfterCompletion ==
    \A id \in DOMAIN ends :
        /\ CountOf(starts', id) = CountOf(starts, id)
        /\ CountOf(ends', id) = CountOf(ends, id)

C8_Lifecycle ==
    /\ [](C8_OneStartWhenFirstListed /\ C8_OneCompletionWhenCompleted)
    /\ [][C8_SilentAfterCompletion]_vars

\* A cycle after the one that sent the completion has finished without any
\* notification: the run has had one start and one completion.
C8_Witness ==
    /\ pc = "sleep"
    /\ CountOf(starts, 1) = 1
    /\ CountOf(ends, 1) = 1
    /\ endLabel[1] = "EXITOSO"
    /\ cycleStarts = <<>>
    /\ cycleEnds = <<>>

\* C9: a tracked run whose detail fetch returns None is skipped, its entry
\* unchanged and nothing sent; in a later cycle in which the fetch returns
\* 'completed' its completion notification is dispatched.
C9_AbsentStep ==
    (/\ pc = "scan"
     /\ pc' \in Running
     /\ j <= Len(monitored_runs)
     /\ ~monitored_runs[j].notified_end
     /\ run_details' = NoDetails)
    => /\ monitored_runs' = monitored_runs
       /\ starts' = starts
       /\ ends' = ends
       /\ pc' = "scan"
       /\ j' = j + 1

C9_CompletedIsNotified ==
    (send_notification /\ pc = "evict")
    => \A id \in cycleCompleted :
          /\ Occurrences(cycleEnds, id) = 1
          /\ Entry(monitored_runs, id).notified_end

C9_AbsentThenCompleted ==
    /\ []C9_CompletedIsNotified
    /\ [][C9_AbsentStep]_vars

\* The completion of a run whose fetch failed in an earlier cycle was sent.
C9_Witness ==
    /\ pc = "mark_end"
    /\ monitored_runs[j].id \in absentSeen
    /\ CountOf(ends, monitored_runs[j].id) = 1

\* C10: a run returned by both queries of a cycle gets one start
\* notification, built from the queued record, and the start notifications
\* of a cycle go out in first-seen order of queued + in_progress.
C10_StartsOfCycle == [k \in 1..Len(cycleStarts) |-> cycleStarts[k].id]

\* The notifications sent so far follow the first occurrences in runs, and
\* each carries the source of the record at that first occurrence.
C10_FirstSeenOrder(runs) ==
    LET firstAt(id) == CHOOSE k \in 1..Len(runs) :
                          /\ runs[k].id = id
                          /\ \A m \in 1..(k - 1) : runs[m].id # id
    IN  \A a \in 1..Len(cycleStarts) :
            /\ cycleStarts[a].src = runs[firstAt(cycleStarts[a].id)].src
            /\ a < Len(cycleStarts)
               => firstAt(cycleStarts[a].id) < firstAt(cycleStarts[a + 1].id)

C10_OneStartPerListedRun ==
    /\ \A a \in 1..Len(cycleStarts) : CountFor(cycleStarts, cycleStarts[a].id) = 1
    /\ Len(cycleStarts) <= Len(cycleNew)
    /\ C10_StartsOfCycle = SubSeq(cycleNew, 1, Len(cycleStarts))
    /\ pc \in (AfterStartLoop \cup {"start_loop", "compose_start", "send_start",
                                     "mark_start"})
       => /\ C10_FirstSeenOrder(active_runs)
          /\ \A a \in 1..Len(cycleStarts) :
               (\E k \in 1..Len(queued) : queued[k].id = cycleStarts[a].id)
               => cycleStarts[a].src = "queued"
    /\ (send_notification /\ pc \in AfterStartLoop)
       => C10_StartsOfCycle = cycleNew

\* Run 1 came back from both queries and its one start notification was built
\* from the queued record.
C10_Witness ==
    /\ pc = "scan"
    /\ Len(active_runs) >= 2
    /\ \E a \in 1..Len(active_runs) : \E b \in 1..Len(active_runs) :
          /\ active_runs[a].id = active_runs[b].id
          /\ active_runs[a].src = "queued"
          /\ active_runs[b].src = "in_progress"
          /\ CountFor(cycleStarts, active_runs[a].id) = 1
          /\ \E k \in 1..Len(cycleStarts) :
                cycleStarts[k] = [id |-> active_runs[a].id, src |-> "queued"]

\* ---------------------------------------------------------------- C11
\* The run w was start-notified, is no longer tracked, has completed at the
\* provider and no completion notification was dispatched for it.
C11_Lost(w) ==
    /\ ~Tracked(monitored_runs, w)
    /\ CountOf(starts, w) >= 1
    /\ CountOf(ends, w) = 0
    /\ prov[w].status = "completed"

\* Eviction does not look at the flags: an entry among the oldest is removed
\* even when its start was notified and its completion was not.
C11_EvictsPending ==
    (pc = "evict" /\ pc' = "sleep" /\ Len(monitored_runs) > EvictThreshold)
        => \A k \in 1..(Len(monitored_runs) - KeepRecent) :
              (monitored_runs[k].notified_start /\ ~monitored_runs[k].notified_end)
                  => \A m \in 1..Len(monitored_runs') :
                        monitored_runs'[m].id # monitored_runs[k].id

C11_LostForGood == \A w \in Watched : C11_Lost(w) => C11_Lost(w)'

\* C11: a run that was tracked and start-notified can be evicted before its
\* completion is notified (eviction removes the oldest entries whatever their
\* flags), and once such a run has completed no completion notification is
\* ever dispatched for it: it is not tracked again and its tally stays 0.
C11_EvictedRunIsNeverCompleted == [][C11_EvictsPending /\ C11_LostForGood]_vars

\* The run 1 was start-notified, evicted, then completed, and the loop is in
\* a later cycle without a completion notification for it.
C11_Witness ==
    /\ C11_Lost(1)
    /\ pc = "scan"
    /\ j > Len(monitored_runs)
    /\ Len(monitored_runs) > 0

\* ---------------------------------------------------------------- C12
\* The step of lines 167-171 in which entries are removed.
C12_Fires == pc = "evict" /\ pc' = "sleep" /\ Len(monitored_runs') < Len(monitored_runs)

C12_Dropped == Len(monitored_runs) - Len(monitored_runs')

C13_IncompleteConfigIsRejected ==
    ~ConfigComplete(config) =>
        /\ base_url = NoUrl
        /\ pc \in {"main", "construct", "rejected"}
        /\ starts = NoneYet

\* ---------------------------------------------------------------- C14
C14_Parseable(text) == text.form \in IsoForms

\* The rendering the claim gives for an elapsed time in whole seconds.
C14_Rendering(elapsed) ==
    LET m == elapsed \div 60
        s == elapsed % 60
    IN IF m > 0
         THEN ToString(m) \o "m " \o ToString(s) \o "s"
         ELSE ToString(elapsed) \o "s"

\* C14: format_duration never raises; for every pair of parseable timestamps,
\* the end equal to or earlier than the start included, it returns the
\* rendering of elapsed = end - start in whole seconds ("{m}m {s}s" with
\* m = elapsed div 60 and s = elapsed mod 60 when m > 0, "{elapsed}s"
\* otherwise), and for an unparsable or absent start or an unparsable end it
\* returns the sentinel.
C14_RendersElapsedSeconds ==
    (pc = "returned" /\ call.fn = "format_duration") =>
        IF C14_Parseable(call.start_time) /\ C14_Parseable(call.end_time)
          THEN result.value
                 = C14_Rendering(call.end_time.secs - call.start_time.secs)
          ELSE (~C14_Parseable(call.start_time) \/ call.end_time.form = "garbage")
                 => result.value = "Desconocida"

\* ---------------------------------------------------------------- C15
\* create_start_message has returned for a run record with a commit message.
C15_Composed ==
    /\ pc = "returned"
    /\ call.fn = "create_start_message"
    /\ call.run_data.head_commit.kind = "message"
    /\ result.outcome = "returned"

\* C15: a commit message longer than 80 characters appears in the start
\* message as exactly its first 80 characters followed by "..."; a message
\* of at most 80 characters appears unchanged, without the marker.
C15_CommitTruncation ==
    C15_Composed =>
        LET msg == call.run_data.head_commit.message
            shown == result.value.commit
        IN IF Len(msg) > 80
             THEN /\ Len(shown) = 83
                  /\ \A k \in 1..80 : shown[k] = msg[k]
                  /\ \A k \in 81..83 : shown[k] = 46
             ELSE shown = msg

\* A message of 82 characters was cut to 80 and the marker.
C15_Witness ==
    /\ C15_Composed
    /\ Len(call.run_data.head_commit.message) = 82
    /\ Len(result.value.commit) = 83

\* ---------------------------------------------------------------- C16
\* create_completion_message has returned.
C16_Composed ==
    /\ pc = "returned"
    /\ call.fn = "create_completion_message"
    /\ result.outcome = "returned"

\* The label the claim gives for a conclusion.
C16_ClaimedLabel(conclusion) ==
    CASE conclusion = "success"   -> "SUCCESS"
      [] conclusion = "failure"   -> "FAILED"
      [] conclusion = "cancelled" -> "CANCELLED"
      [] conclusion = "skipped"   -> "SKIPPED"
      [] OTHER                    -> "COMPLETED"

C16_Pair(conclusion) ==
    CASE conclusion = "success"   -> <<"check mark button", "EXITOSO">>
      [] conclusion = "failure"   -> <<"cross mark", "FALLIDO">>
      [] conclusion = "cancelled" -> <<"stop button", "CANCELADO">>
      [] conclusion = "skipped"   -> <<"next track button", "OMITIDO">>
      [] OTHER                    -> <<"warning", "COMPLETADO">>

C16_Known == {"success", "failure", "cancelled", "skipped"}

C17_CycleBoundary == pc \in {"sleep", "error_sleep", "query_queued"}

C17_FlagsTrackDispatch ==
    C17_CycleBoundary =>
        \A k \in 1..Len(monitored_runs) :
            /\ monitored_runs[k].notified_start
                  <=> monitored_runs[k].id \in sentStart
            /\ monitored_runs[k].notified_end
                  <=> monitored_runs[k].id \in sentEnd

C17_NewEntryIsUnnotified ==
    Len(monitored_runs') = Len(monitored_runs) + 1 =>
        LET e == monitored_runs'[Len(monitored_runs')]
        IN ~e.notified_start /\ ~e.notified_end

\* C17: at every cycle boundary an entry has notified_start = true exactly
\* when the sink accepted a start notification for its run since the entry
\* was inserted, and notified_end = true exactly when the sink accepted a
\* completion notification for it since then; a newly inserted entry has
\* both flags false.
C17_FlagsAreExact == []C17_FlagsTrackDispatch /\ [][C17_NewEntryIsUnnotified]_vars

\* Between two cycles, the entry of run 1 has notified_start = false (its
\* start notification failed) and notified_end = true (its completion
\* notification was accepted).
C17_Witness ==
    /\ pc = "sleep"
    /\ Len(monitored_runs) >= 2
    /\ monitored_runs[1].id = 1
    /\ ~monitored_runs[1].notified_start /\ 1 \notin sentStart
    /\ monitored_runs[1].notified_end /\ 1 \in sentEnd
    /\ monitored_runs[2].notified_start /\ monitored_runs[2].id \in sentStart

\* ---------------------------------------------------------------- C18
\* A provider call fails in this step.
C18_CallFails == Len(cycleFailed') = Len(cycleFailed) + 1

C18_FailureStep ==
    C18_CallFails =>
        LET failed == cycleFailed'[Len(cycleFailed')]
        IN /\ monitored_runs' = monitored_runs
           /\ lastError' = lastError
           /\ failed = "queued"
                 => queued' = <<>> /\ pc' = "query_in_progress"
           /\ failed = "in_progress"
                 => active_runs' = queued /\ pc' = "start_loop"
           /\ failed = "details"
                 => run_details' = NoDetails /\ pc' = "scan" /\ j' = j + 1

\* No cycle is in the handler of line 178 because of a failed provider call.
C18_NotTheHandlersReason ==
    pc = "error_sleep" => lastError \notin {"queued", "in_progress", "details"}

\* C18: a failed provider call changes no entry and does not abort the
\* cycle: a failed list query contributes an empty list, a failed detail
\* fetch yields 'absent'; the table is left as it is, no exception reaches
\* the handler of the cycle and the cycle goes on with its next statement
\* (the other query, the loop over the active runs, the next tracked run).
C18_ProviderFailureIsAbsorbed ==
    []C18_NotTheHandlersReason /\ [][C18_FailureStep]_vars

\* Both list queries and the detail fetch of run 1 failed in one cycle, and
\* the cycle reached its sleep with run 1 still tracked.
C18_Witness ==
    /\ pc = "sleep"
    /\ cycleFailed = <<"queued", "in_progress", "details">>
    /\ Len(monitored_runs) >= 1
    /\ monitored_runs[1].id = 1
    /\ lastError = "none"

\* ---------------------------------------------------------------- C19
\* C19: the interrupt is acted upon at cycle boundaries only: when the loop
\* has stopped, the work of its last cycle is complete; in particular no
\* entry inserted in that cycle is left without its start notification.
C19_NoCycleLeftHalfDone ==
    (pc = "stopped" /\ send_notification) =>
        \A k \in 1..Len(monitored_runs) :
            (\E n \in 1..Len(cycleNew) : cycleNew[n] = monitored_runs[k].id)
                => monitored_runs[k].notified_start

\* ---------------------------------------------------------------- C20
\* C20: a completion notification for a run is dispatched only after a start
\* notification for it: no run has a completion and no start, and no entry
\* has notified_end = true while notified_start = false.
C20_StartPrecedesCompletion ==
    /\ \A id \in DOMAIN ends : ends[id] >= 1 => CountOf(starts, id) >= 1
    /\ \A k \in 1..Len(monitored_runs) :
          monitored_runs[k].notified_end => monitored_runs[k].notified_start
====
